---- MODULE Spec2Model ----
(***************************************************************************)
(* The Emitter class of src/src/emitter.ts as a state machine.             *)
(*                                                                         *)
(* The private field #events is a JavaScript object: an ordered list of    *)
(* properties, each holding a reference to an array of listeners.  Arrays  *)
(* are heap objects: on() pushes into the array it got from listeners()    *)
(* (the registry's own array when the key is present), off() stores a new  *)
(* filtered array, and a running emit() keeps iterating the array it read  *)
(* when it started.  Listener bodies are arbitrary client code: while a    *)
(* listener runs it may call any operation of the emitter, return or throw.*)
(***************************************************************************)
EXTENDS Integers, Sequences, FiniteSets, TLC

VARIABLES
    events,    \* #events: sequence of [key, ref] properties in creation order
    heap,      \* the arrays that are reachable: reference -> sequence of listeners
    stack,     \* the running emit() calls, innermost last
    wrappers,  \* wrappers[n]: what the n-th once() call returned to its caller
    calls,     \* calls[n]: how many times the n-th once() proxy was invoked
    cancelled, \* the proxies the client removed with off() before any call of them
    held,      \* the array the client got from listeners() and kept: <<>> or <<ref>>
    last,      \* the call of the emitter that ended in the last step, if one did
    ops        \* how many calls of the emitter the client has made

vars == <<events, heap, stack, wrappers, calls, cancelled, held, last, ops>>

----------------------------------------------------------------------------
(* Bounds of the model *)

\* Calls of the emitter the client makes, at top level and inside listeners.
MaxOps == 4
\* Listeners the registry holds, all events together, when only the registry's
\* operations are explored (no emission).
MaxListeners == 2

----------------------------------------------------------------------------
(* Values *)

StringKey(s) == [type |-> "string", name |-> s]
SymbolKey(s) == [type |-> "symbol", name |-> s]
Undefined == [type |-> "undefined", name |-> ""]

EmptyKey == StringKey("")
TextKey == StringKey("a")
TokenKey == SymbolKey("s")

\* A text key that names a property of Object.prototype, which the object {}
\* of #events inherits.
InheritedKey == StringKey("constructor")

\* The event keys the client emits on, and the ones it uses when only the
\* registry's operations are explored.
Keys == {TextKey, TokenKey}
RegistryKeys == {EmptyKey, StringKey("1"), StringKey("2"), TokenKey}
PrototypeKeys == {TextKey, InheritedKey}
Args == {"x", "y"}
Functions == {"f", "g"}

\* A listener is a client function, or the Proxy that once() built around one.
Plain(f) == [proxy |-> FALSE, id |-> 0, event |-> Undefined, target |-> f]
Proxy(n, event, f) == [proxy |-> TRUE, id |-> n, event |-> event, target |-> f]

\* What indexing a value that is no array yields: undefined, not a function.
Hole == Plain("undefined")

\* What `last` records of a call: the operation and its arguments, what
\* eventNames() and listeners(event) were when the call started and, for emit(),
\* the invocations made, the value returned (or that a listener threw) and
\* whether the registry was left alone meanwhile.
NoOp == [op |-> "none", event |-> Undefined, listener |-> Plain(""), args |-> "",
         names |-> <<>>, start |-> <<>>, log |-> <<>>, result |-> FALSE,
         threw |-> FALSE, clean |-> TRUE]

\* JavaScript truthiness of an event argument: undefined and '' are falsy.
Truthy(v) == ~(v.type = "undefined") /\ ~(v.type = "string" /\ v.name = "")

Min(S) == CHOOSE n \in S : \A m \in S : n <= m

Count(s, v) == Cardinality({i \in 1..Len(s) : s[i] = v})

----------------------------------------------------------------------------
(* The object #events and the heap of arrays.  A store S is the pair       *)
(* [events, heap].                                                         *)

Has(ev, k) == \E i \in 1..Len(ev) : ev[i].key = k
Get(ev, k) == LET i == CHOOSE j \in 1..Len(ev) : ev[j].key = k IN ev[i].ref

\* obj[k] = ref: an existing property keeps its place, a new one is created last.
Put(ev, k, r) ==
    IF Has(ev, k)
    THEN [i \in 1..Len(ev) |-> IF ev[i].key = k THEN [key |-> k, ref |-> r] ELSE ev[i]]
    ELSE Append(ev, [key |-> k, ref |-> r])

\* delete obj[k]
Delete(ev, k) == SelectSeq(ev, LAMBDA p : p.key # k)

Fresh(h) == Min((1..(Cardinality(DOMAIN h) + 1)) \ DOMAIN h)

Alloc(h, r, s) == (r :> s) @@ h

\* The references a registry and the running emit() calls hold, each once, in
\* the order of the properties and then of the calls.
RECURSIVE Distinct(_)
Distinct(s) ==
    IF Len(s) = 0 THEN <<>>
    ELSE LET front == Distinct(SubSeq(s, 1, Len(s) - 1))
             x == s[Len(s)]
         IN IF \E i \in 1..Len(front) : front[i] = x THEN front ELSE Append(front, x)

Live(ev, st) ==
    Distinct([i \in 1..Len(ev) |-> ev[i].ref] \o [i \in 1..Len(st) |-> st[i].ref])

Store == [events |-> events, heap |-> heap]

\* this.#events[event] for a key that is no property of #events itself: the
\* property lookup goes on to Object.prototype.  'constructor' finds the
\* function Object, which is not nullish, has length 1, no element 0 and no
\* array methods; any other key of the model finds nothing (undefined).
Inherited(event) == IF event = InheritedKey THEN <<Hole>> ELSE <<>>

\* listeners(event): contents of  this.#events[event] ?? []
listeners(S, event) ==
    IF Has(S.events, event) THEN S.heap[Get(S.events, event)] ELSE Inherited(event)

\* listenerCount(event): this.#events[event]?.length ?? 0
listenerCount(S, event) ==
    IF Has(S.events, event) THEN Len(S.heap[Get(S.events, event)])
    ELSE Len(Inherited(event))

\* on(), once() and off() end with a TypeError when what they read under the
\* key is not an array: listeners.push and this.#events[event].filter are not
\* functions.
Raises(S, op, event) ==
    /\ op \in {"on", "once", "off"}
    /\ ~Has(S.events, event)
    /\ Len(Inherited(event)) > 0

\* A faulty on(): unshift instead of push.
onUnshift(S, event, listener) ==
    LET present == Has(S.events, event)
        r == IF present THEN Get(S.events, event) ELSE Fresh(S.heap)
        h == IF present THEN S.heap ELSE Alloc(S.heap, r, <<>>)
    IN [events |-> Put(S.events, event, r),
        heap |-> [h EXCEPT ![r] = <<listener>> \o @]]

\* on(event, listener): push into the array listeners(event) returned, store it.
on(S, event, listener) ==
    LET present == Has(S.events, event)
        r == IF present THEN Get(S.events, event) ELSE Fresh(S.heap)
        h == IF present THEN S.heap ELSE Alloc(S.heap, r, <<>>)
    IN IF Raises(S, "on", event) THEN S
       ELSE [events |-> Put(S.events, event, r),
             heap |-> [h EXCEPT ![r] = Append(@, listener)]]

\* A faulty off(): only the first entry identical to listener is removed.
offFirst(S, event, listener) ==
    IF Has(S.events, event)
    THEN LET r == Fresh(S.heap)
             old == S.heap[Get(S.events, event)]
             hit == {i \in 1..Len(old) : old[i] = listener}
             kept == IF hit = {} THEN old
                     ELSE SubSeq(old, 1, Min(hit) - 1)
                          \o SubSeq(old, Min(hit) + 1, Len(old))
         IN [events |-> Put(S.events, event, r), heap |-> Alloc(S.heap, r, kept)]
    ELSE S

\* A faulty off(): the listener is removed from the sequence of every event.
offEverywhere(S, event, listener) ==
    IF Has(S.events, event)
    THEN [events |-> S.events,
          heap |-> [r \in DOMAIN S.heap |->
                       IF \E i \in 1..Len(S.events) : S.events[i].ref = r
                       THEN SelectSeq(S.heap[r], LAMBDA v : v # listener)
                       ELSE S.heap[r]]]
    ELSE S

\* off(event, listener): when the key is present, store a new filtered array.
off(S, event, listener) ==
    IF Has(S.events, event)
    THEN LET r == Fresh(S.heap)
             kept == SelectSeq(S.heap[Get(S.events, event)], LAMBDA v : v # listener)
         IN [events |-> Put(S.events, event, r), heap |-> Alloc(S.heap, r, kept)]
    ELSE S

\* A faulty removeAllListeners(): without argument the arrays are emptied and
\* their keys kept.
removeAllKeepsKeys(S, event) ==
    IF Truthy(event)
    THEN [events |-> Delete(S.events, event), heap |-> S.heap]
    ELSE [events |-> S.events,
          heap |-> [r \in DOMAIN S.heap |->
                       IF \E i \in 1..Len(S.events) : S.events[i].ref = r
                       THEN <<>> ELSE S.heap[r]]]

\* removeAllListeners(event?): delete one key if the argument is truthy, else reset.
removeAllListeners(S, event) ==
    IF Truthy(event)
    THEN [events |-> Delete(S.events, event), heap |-> S.heap]
    ELSE [events |-> <<>>, heap |-> S.heap]


\* Reflect.ownKeys(obj): integer-index keys in ascending numeric order, then the
\* other string keys in creation order, then the symbol keys in creation order.
IndexValue ==
    ("0" :> 0) @@ ("1" :> 1) @@ ("2" :> 2) @@ ("3" :> 3) @@ ("4" :> 4) @@
    ("5" :> 5) @@ ("6" :> 6) @@ ("7" :> 7) @@ ("8" :> 8) @@ ("9" :> 9)

IsIndex(k) == k.type = "string" /\ k.name \in DOMAIN IndexValue
IsText(k) == k.type = "string" /\ k.name \notin DOMAIN IndexValue
IsSymbol(k) == k.type = "symbol"

\* A faulty choice: Object.keys(obj), which leaves the symbol keys out.
ObjectKeys(ev) ==
    LET ks == [i \in 1..Len(ev) |-> ev[i].key]
    IN SortSeq(SelectSeq(ks, IsIndex),
               LAMBDA a, b : IndexValue[a.name] < IndexValue[b.name])
       \o SelectSeq(ks, IsText)

OwnKeys(ev) ==
    LET ks == [i \in 1..Len(ev) |-> ev[i].key]
    IN SortSeq(SelectSeq(ks, IsIndex),
               LAMBDA a, b : IndexValue[a.name] < IndexValue[b.name])
       \o SelectSeq(ks, IsText)
       \o SelectSeq(ks, IsSymbol)

\* eventNames(): Reflect.ownKeys(this.#events)
eventNames(S) == OwnKeys(S.events)

\* A faulty once(): the original listener is returned, not the proxy.
onceReturnsListener(S, n, event, f) ==
    LET proxy == Proxy(n, event, f)
    IN [store |-> on(S, event, proxy), result |-> Plain(f)]

\* once(event, listener): build the proxy, register it with on(), return it.
\* n numbers the proxies, each a new object.
once(S, n, event, f) ==
    LET proxy == Proxy(n, event, f)
    IN [store |-> on(S, event, proxy), result |-> proxy]

\* What a call of an array entry runs: a proxy's apply handler calls its target
\* with the arguments it received.
apply(listener, args) == [entry |-> listener, fn |-> listener.target, args |-> args]

\* A faulty apply handler: this.off(event, listener), with the original listener.
afterTargetRemovesListener(S, listener) ==
    IF listener.proxy THEN off(S, listener.event, Plain(listener.target)) ELSE S

\* What the apply handler of a proxy does after its target returned.
afterTarget(S, listener) ==
    IF listener.proxy THEN off(S, listener.event, listener) ELSE S

\* A faulty loop test: i < listeners.length - 1.
loopTestShort(h, frame) == frame.i < Len(h[frame.ref])

\* A faulty return value: the length of listeners(event) read again.
emitResultReread(h, frame) == listenerCount(Store, frame.event) > 0

\* A faulty loop test: i < this.listenerCount(event), read again at each turn.
loopTestLive(h, frame) == frame.i <= listenerCount(Store, frame.event)

\* i < listeners.length, on the array emit() read when it started (i counts from
\* 1 here).
loopTest(h, frame) == frame.i <= Len(h[frame.ref])

\* return Boolean(listeners.length), on the same array.
emitResult(h, frame) == Len(h[frame.ref]) > 0

----------------------------------------------------------------------------
(* The state machine *)

RECURSIVE Entries(_, _)
Entries(ev, h) ==
    IF Len(ev) = 0 THEN 0 ELSE Len(h[Head(ev).ref]) + Entries(Tail(ev), h)

Top == stack[Len(stack)]
Pop == SubSeq(stack, 1, Len(stack) - 1)

\* The client is at top level, or is the body of the listener that runs innermost.
CanCall == IF Len(stack) = 0 THEN TRUE ELSE Top.pc = "call"

\* A call that changes the registry while emit() calls are running.
Touched(st) == [i \in 1..Len(st) |-> [st[i] EXCEPT !.clean = FALSE]]

\* What the client can pass to off(): its own functions and what once() returned.
Handles == {Plain(f) : f \in Functions} \cup {wrappers[n] : n \in 1..Len(wrappers)}

\* The next registry, call stack and array kept by the client.  Arrays nothing
\* refers to any more are dropped and the references renumbered in the order
\* of Live, the client's array last: a reference has no meaning but its
\* identity.
Keep(S, st, hd) ==
    LET live == Distinct(Live(S.events, st) \o hd)
        new(r) == CHOOSE k \in 1..Len(live) : live[k] = r
    IN /\ events' = [i \in 1..Len(S.events) |->
                        [S.events[i] EXCEPT !.ref = new(@)]]
       /\ stack' = [i \in 1..Len(st) |-> [st[i] EXCEPT !.ref = new(@)]]
       /\ held' = [i \in 1..Len(hd) |-> new(hd[i])]
       /\ heap' = [k \in 1..Len(live) |-> S.heap[live[k]]]

\* A step that leaves the client with the array it kept, if any.
Commit(S, st) == Keep(S, st, held)

\* The record of a call of `op` that just ended.
Done(op, event, listener) ==
    [NoOp EXCEPT !.op = op, !.event = event, !.listener = listener,
                 !.names = eventNames(Store), !.start = listeners(Store, event),
                 !.threw = Raises(Store, op, event)]

Init ==
    /\ events = <<>>
    /\ heap = <<>>
    /\ stack = <<>>
    /\ wrappers = <<>>
    /\ calls = <<>>
    /\ cancelled = {}
    /\ held = <<>>
    /\ last = NoOp
    /\ ops = 0

On(event, f) ==
    /\ CanCall
    /\ Commit(on(Store, event, Plain(f)), Touched(stack))
    /\ last' = Done("on", event, Plain(f))
    /\ UNCHANGED <<wrappers, calls, cancelled>>

Once(event, f) ==
    /\ CanCall
    /\ LET r == once(Store, Len(wrappers) + 1, event, f)
           returned == ~Raises(Store, "once", event)
       IN /\ Commit(r.store, Touched(stack))
          /\ wrappers' = IF returned THEN Append(wrappers, r.result) ELSE wrappers
          /\ calls' = IF returned THEN Append(calls, 0) ELSE calls
          /\ last' = Done("once", event, r.result)
    /\ UNCHANGED cancelled

Off(event, listener) ==
    /\ CanCall
    /\ Commit(off(Store, event, listener), Touched(stack))
    /\ cancelled' = cancelled \cup
           {n \in 1..Len(wrappers) :
               /\ wrappers[n] = listener
               /\ wrappers[n].event = event
               /\ calls[n] = 0
               /\ Len(stack) = 0}
    /\ last' = Done("off", event, listener)
    /\ UNCHANGED <<wrappers, calls>>

RemoveAllListeners(event) ==
    /\ CanCall
    /\ Commit(removeAllListeners(Store, event), Touched(stack))
    /\ last' = Done("removeAllListeners", event, Plain(""))
    /\ UNCHANGED <<wrappers, calls, cancelled>>

\* const kept = emitter.listeners(event): the client keeps what line 151
\* returns, the array stored under the key or, without the key, a new [].
Listeners(event) ==
    /\ CanCall
    /\ LET present == Has(events, event)
           r == IF present THEN Get(events, event) ELSE Fresh(heap)
           h == IF present THEN heap ELSE Alloc(heap, r, <<>>)
       IN Keep([events |-> events, heap |-> h], stack, <<r>>)
    /\ last' = Done("listeners", event, Plain(""))
    /\ UNCHANGED <<wrappers, calls, cancelled>>

\* kept.push(f): the client changes the array listeners() returned to it.
Push(f) ==
    /\ CanCall
    /\ Len(held) = 1
    /\ Commit([events |-> events,
               heap |-> [heap EXCEPT ![held[1]] = Append(@, Plain(f))]], stack)
    /\ last' = [NoOp EXCEPT !.op = "push", !.listener = Plain(f),
                            !.names = eventNames(Store)]
    /\ UNCHANGED <<wrappers, calls, cancelled>>

\* A faulty emit(): the array it read is stored, this.#events[event] ??= [].
EmitStoresArray(event, args) ==
    /\ CanCall
    /\ LET present == Has(events, event)
           r == IF present THEN Get(events, event) ELSE Fresh(heap)
           h == IF present THEN heap ELSE Alloc(heap, r, <<>>)
           frame == [event |-> event, args |-> args, ref |-> r, i |-> 1,
                     pc |-> "loop", start |-> listeners(Store, event),
                     log |-> <<>>, clean |-> TRUE]
       IN Commit([events |-> Put(events, event, r), heap |-> h],
                 Append(stack, frame))
    /\ last' = NoOp
    /\ UNCHANGED <<wrappers, calls, cancelled>>

\* emit(event, ...args), line 87: const listeners = this.listeners(event)
Emit(event, args) ==
    /\ CanCall
    /\ LET present == Has(events, event)
           r == IF present THEN Get(events, event) ELSE Fresh(heap)
           h == IF present THEN heap ELSE Alloc(heap, r, Inherited(event))
           frame == [event |-> event, args |-> args, ref |-> r, i |-> 1,
                     pc |-> "loop", start |-> listeners(Store, event),
                     log |-> <<>>, clean |-> TRUE]
       IN Commit([events |-> events, heap |-> h], Append(stack, frame))
    /\ last' = NoOp
    /\ UNCHANGED <<wrappers, calls, cancelled>>

\* line 88-89: i < listeners.length, so listeners[i](...args) is called
Invoke ==
    /\ Len(stack) > 0
    /\ Top.pc = "loop"
    /\ loopTest(heap, Top)
    /\ heap[Top.ref][Top.i] # Hole
    /\ LET listener == heap[Top.ref][Top.i]
       IN /\ calls' = IF listener.proxy
                      THEN [calls EXCEPT ![listener.id] = @ + 1]
                      ELSE calls
          /\ stack' = [stack EXCEPT ![Len(stack)] =
                          [@ EXCEPT !.pc = "call",
                                    !.log = Append(@, apply(listener, Top.args))]]
    /\ last' = NoOp
    /\ UNCHANGED <<events, heap, wrappers, cancelled, held>>

\* line 89 when listeners[i] is undefined: TypeError, listeners[i] is not a
\* function; nothing is called and the error leaves emit()
NotAFunction ==
    /\ Len(stack) > 0
    /\ Top.pc = "loop"
    /\ loopTest(heap, Top)
    /\ heap[Top.ref][Top.i] = Hole
    /\ Commit(Store, Pop)
    /\ last' = [NoOp EXCEPT !.op = "emit", !.event = Top.event, !.args = Top.args,
                            !.start = Top.start, !.log = Top.log, !.threw = TRUE,
                            !.clean = Top.clean]
    /\ UNCHANGED <<wrappers, calls, cancelled>>

\* the listener returns: a proxy's handler goes on to off(event, proxy); i++
ListenerReturn ==
    /\ Len(stack) > 0
    /\ Top.pc = "call"
    /\ LET listener == heap[Top.ref][Top.i]
           st == IF listener.proxy THEN Touched(stack) ELSE stack
       IN Commit(afterTarget(Store, listener),
                 [st EXCEPT ![Len(st)] = [@ EXCEPT !.pc = "loop", !.i = @ + 1]])
    /\ last' = NoOp
    /\ UNCHANGED <<wrappers, calls, cancelled>>

\* A faulty emit(): the call is in a try block whose catch goes on with the loop.
ListenerThrowCaught ==
    /\ Len(stack) > 0
    /\ Top.pc = "call"
    /\ Commit(Store, [stack EXCEPT ![Len(stack)] =
                         [@ EXCEPT !.pc = "loop", !.i = @ + 1]])
    /\ last' = [NoOp EXCEPT !.op = "emit", !.event = Top.event, !.args = Top.args,
                            !.start = Top.start, !.log = Top.log, !.threw = TRUE,
                            !.clean = Top.clean]
    /\ UNCHANGED <<wrappers, calls, cancelled>>

\* the listener throws: the exception leaves the proxy's handler and emit()
ListenerThrow ==
    /\ Len(stack) > 0
    /\ Top.pc = "call"
    /\ Commit(Store, Pop)
    /\ last' = [NoOp EXCEPT !.op = "emit", !.event = Top.event, !.args = Top.args,
                            !.start = Top.start, !.log = Top.log, !.threw = TRUE,
                            !.clean = Top.clean]
    /\ UNCHANGED <<wrappers, calls, cancelled>>

\* line 88, 92: the loop is over, return Boolean(listeners.length)
EmitReturn ==
    /\ Len(stack) > 0
    /\ Top.pc = "loop"
    /\ ~loopTest(heap, Top)
    /\ Commit(Store, Pop)
    /\ last' = [NoOp EXCEPT !.op = "emit", !.event = Top.event, !.args = Top.args,
                            !.start = Top.start, !.log = Top.log,
                            !.result = emitResult(heap, Top), !.clean = Top.clean]
    /\ UNCHANGED <<wrappers, calls, cancelled>>

\* One more call of the emitter by the client, of at most MaxOps.
Call == ops < MaxOps /\ ops' = ops + 1

\* The client calls the emitter, at top level or inside a listener; the running
\* emit() calls go on.
Next ==
    \/ \E event \in Keys, f \in Functions : Call /\ On(event, f)
    \/ \E event \in Keys, f \in Functions : Call /\ Once(event, f)
    \/ \E event \in Keys, listener \in Handles : Call /\ Off(event, listener)
    \/ \E event \in Keys \cup {Undefined} : Call /\ RemoveAllListeners(event)
    \/ \E event \in Keys, args \in Args : Call /\ Emit(event, args)
    \/ Invoke /\ UNCHANGED ops
    \/ ListenerReturn /\ UNCHANGED ops
    \/ ListenerThrow /\ UNCHANGED ops
    \/ EmitReturn /\ UNCHANGED ops

Spec == Init /\ [][Next]_vars

\* The registry's operations alone, over every kind of key, in every registry
\* of at most MaxListeners listeners.
Room == Entries(events, heap) < MaxListeners

NextRegistry ==
    \/ \E event \in RegistryKeys, f \in Functions :
           Room /\ On(event, f) /\ UNCHANGED ops
    \/ \E event \in RegistryKeys, listener \in Handles :
           Off(event, listener) /\ UNCHANGED ops
    \/ \E event \in RegistryKeys \cup {Undefined} :
           RemoveAllListeners(event) /\ UNCHANGED ops

SpecRegistry == Init /\ [][NextRegistry]_vars

\* The registry's operations and a client that keeps and changes an array
\* listeners() returned.
NextKept ==
    \/ \E event \in Keys, f \in Functions : Call /\ On(event, f)
    \/ \E event \in Keys, listener \in Handles : Call /\ Off(event, listener)
    \/ \E event \in Keys : Call /\ Listeners(event)
    \/ \E f \in Functions : Call /\ Push(f)

SpecKept == Init /\ [][NextKept]_vars

\* The emitter used with a key that Object.prototype has a property for.
NextPrototype ==
    \/ \E event \in PrototypeKeys, f \in Functions : Call /\ On(event, f)
    \/ \E event \in PrototypeKeys, f \in Functions : Call /\ Once(event, f)
    \/ \E event \in PrototypeKeys, listener \in Handles : Call /\ Off(event, listener)
    \/ \E event \in PrototypeKeys, args \in Args : Call /\ Emit(event, args)
    \/ Invoke /\ UNCHANGED ops
    \/ NotAFunction /\ UNCHANGED ops
    \/ ListenerReturn /\ UNCHANGED ops
    \/ EmitReturn /\ UNCHANGED ops

SpecPrototype == Init /\ [][NextPrototype]_vars

----------------------------------------------------------------------------
(* Properties *)

StoreNext == [events |-> events', heap |-> heap']

\* The listener a running emit() has called and not yet seen return.
Current(frame) == heap[frame.ref][frame.i]

Running(listener) ==
    \E k \in 1..Len(stack) : stack[k].pc = "call" /\ Current(stack[k]) = listener

Contains(s, v) == \E i \in 1..Len(s) : s[i] = v

Without(s, v) == SelectSeq(s, LAMBDA x : x # v)

\* What the client can observe of the registry.
Observed(S) ==
    [names |-> eventNames(S), listeners |-> [k \in Keys |-> listeners(S, k)]]

\* C1: a listener registered with once() is invoked at most once, whether its
\* invocation returns or throws, and once an invocation of it is over its
\* wrapper is no longer among listeners(event).
C1_OnceInvokedAtMostOnce ==
    \A n \in 1..Len(wrappers) :
        /\ calls[n] <= 1
        /\ (calls[n] >= 1 /\ ~Running(wrappers[n]))
               => ~Contains(listeners(Store, wrappers[n].event), wrappers[n])

\* C2: a once() wrapper is out of the event's sequence before its listener
\* runs, so an emit(event) made by that listener does not invoke the wrapper
\* again: no wrapper is called by two running emit() calls at once.
C2_NoNestedReinvocation ==
    \A j, k \in 1..Len(stack) :
        (j < k /\ stack[j].pc = "call" /\ stack[k].pc = "call"
               /\ Current(stack[j]).proxy)
            => Current(stack[k]) # Current(stack[j])

\* C3: an emit() call that returns, returns true exactly when the event had at
\* least one listener when the call started, whatever the listeners did to the
\* registry meanwhile.
C3_EmitReturnsHadListeners ==
    (last.op = "emit" /\ ~last.threw) => (last.result <=> Len(last.start) > 0)

\* An emit() returned true although its listeners emptied the event meanwhile.
C3_Witness ==
    /\ last.op = "emit" /\ ~last.threw /\ ~last.clean
    /\ last.result
    /\ listenerCount(Store, last.event) = 0

\* C4: when no listener changes the registry or throws, emit() calls each entry
\* the event's sequence had, once per entry and in order, each with the
\* arguments of the emit(), and calls nothing else.
C4_EmitInvokesEachInOrder ==
    (last.op = "emit" /\ ~last.threw /\ last.clean)
        => /\ Len(last.log) = Len(last.start)
           /\ \A i \in 1..Len(last.log) :
                  /\ last.log[i].entry = last.start[i]
                  /\ last.log[i].fn = last.start[i].target
                  /\ last.log[i].args = last.args

\* Such an emit() called an entry that was registered twice twice, while
\* another event had a listener.
C4_Witness ==
    /\ last.op = "emit" /\ ~last.threw /\ last.clean
    /\ Len(last.log) = 2
    /\ last.log[1].entry = last.log[2].entry
    /\ \E k \in Keys : k # last.event /\ listenerCount(Store, k) > 0

\* C5: on(event, listener) puts listener after the entries listeners(event)
\* already held, which stay as they were: a sequence of on() calls is listed in
\* call order, a listener registered k times k times.
C5_OnAppends ==
    last.op = "on"
        => listeners(Store, last.event) = Append(last.start, last.listener)

\* on() registered a listener a second time, after another one.
C5_Witness ==
    /\ last.op = "on"
    /\ Len(last.start) = 2
    /\ last.start[1] = last.listener
    /\ last.start[2] # last.listener

\* C6: off(event, listener) removes every entry identical to listener and
\* keeps the others in their order, so that listenerCount(event) drops by the
\* number of such entries; if there is none, or event has no sequence, nothing
\* that can be observed changes.
C6_OffRemovesEveryMatch ==
    last.op = "off"
        => LET after == listeners(Store, last.event)
           IN /\ after = Without(last.start, last.listener)
              /\ listenerCount(Store, last.event)
                     = Len(last.start) - Count(last.start, last.listener)
              /\ ~Contains(last.start, last.listener)
                     => /\ after = last.start
                        /\ eventNames(Store) = last.names

\* off() removed the two entries of a listener and kept the one between them.
C6_Witness ==
    /\ last.op = "off"
    /\ Len(last.start) = 3
    /\ last.start[1] = last.listener
    /\ last.start[3] = last.listener
    /\ listeners(Store, last.event) = <<last.start[2]>>

C8_RemoveAllOfOneEvent ==
    [][(last'.op = "removeAllListeners" /\ last'.event # Undefined)
          => /\ listenerCount(StoreNext, last'.event) = 0
             /\ \A k \in RegistryKeys \ {last'.event} :
                    listeners(StoreNext, k) = listeners(Store, k)]_vars

\* C9: after removeAllListeners() without argument eventNames() is empty and
\* every event has no listener.
C9_RemoveAllResets ==
    (last.op = "removeAllListeners" /\ last.event = Undefined)
        => /\ eventNames(Store) = <<>>
           /\ \A k \in Keys \cup RegistryKeys :
                  listenerCount(Store, k) = 0 /\ listeners(Store, k) = <<>>

\* removeAllListeners() was called by a listener while two events had
\* listeners.
C9_Witness ==
    /\ last.op = "removeAllListeners" /\ last.event = Undefined
    /\ Len(last.names) = 2
    /\ Len(stack) > 0

\* The keys of #events in the order they were created.
Created == [i \in 1..Len(events) |-> events[i].key]

Position(s, v) == CHOOSE i \in 1..Len(s) : s[i] = v

KeyRank(k) == IF IsIndex(k) THEN 0 ELSE IF IsText(k) THEN 1 ELSE 2

C11_UnknownKeyIsEmpty ==
    /\ \A k \in PrototypeKeys :
           ~Has(events, k)
               => listenerCount(Store, k) = 0 /\ listeners(Store, k) = <<>>
    /\ last.op \in {"on", "once", "off"} => ~last.threw
    /\ last.op \in {"on", "once"}
           => Contains(listeners(Store, last.event), last.listener)
    /\ (last.op = "emit" /\ Len(last.log) = 0)
           => ~last.threw /\ ~last.result

\* C12: when a listener throws during an emit(), the emit() is over with that
\* step and its caller has the exception: the listeners before the one that
\* threw were called once each, in their order, and none after it is called.
C12_ThrowEndsEmit ==
    [][(last'.op = "emit" /\ last'.threw)
          => /\ Len(stack) > 0
             /\ Top.pc = "call"
             /\ stack' = Pop
             /\ last'.log = Top.log
             /\ Len(Top.log) = Top.i
             /\ \A j \in 1..Top.i : Top.log[j].entry = heap[Top.ref][j]]_vars

\* The second of three listeners threw.
C12_Witness ==
    /\ last.op = "emit" /\ last.threw
    /\ Len(last.log) = 2
    /\ Len(last.start) = 3

\* C13: listeners(event) returns a copy.  A change the client makes to the
\* sequence it was given changes nothing of what listeners() and eventNames()
\* report of the registry, and a later on() or off() changes nothing of the
\* sequence the client was given.
C13_ListenersReturnsCopy ==
    [][/\ last'.op = "push" => Observed(StoreNext) = Observed(Store)
       /\ (last'.op \in {"on", "off"} /\ Len(held) = 1)
             => heap'[held'[1]] = heap[held[1]]]_vars

\* C14: every key eventNames() lists has at least one listener.
C14_NamesHaveListeners ==
    \A i \in 1..Len(eventNames(Store)) :
        listenerCount(Store, eventNames(Store)[i]) > 0

\* C15: a listener added to an event while an emit() of that event runs is not
\* called by that emit(): a running emit() has called no more entries than the
\* sequence held when it started.
C15_AddedListenerWaits ==
    \A k \in 1..Len(stack) : Len(stack[k].log) <= Len(stack[k].start)

\* C16: whatever the listeners remove during an emit(), the sequence the emit()
\* goes through keeps the entries it held when the emit() started, and the
\* emit() calls them one after the other; an emit() that returns has called
\* them all, once each and in their order, before anything else.
C16_RemovalSkipsNothing ==
    /\ \A k \in 1..Len(stack) :
           LET frame == stack[k]
               array == heap[frame.ref]
           IN /\ Len(array) >= Len(frame.start)
              /\ \A i \in 1..Len(frame.start) : array[i] = frame.start[i]
              /\ Len(frame.log) = IF frame.pc = "call" THEN frame.i ELSE frame.i - 1
              /\ \A i \in 1..Len(frame.log) : frame.log[i].entry = array[i]
    /\ (last.op = "emit" /\ ~last.threw)
           => /\ Len(last.log) >= Len(last.start)
              /\ \A i \in 1..Len(last.start) : last.log[i].entry = last.start[i]

\* The second of two listeners was removed with off() during the emit() and
\* was called all the same.
C16_Witness ==
    /\ last.op = "emit" /\ ~last.threw /\ ~last.clean
    /\ Len(last.start) = 2 /\ Len(last.log) = 2
    /\ ~last.start[2].proxy
    /\ last.log[2].entry = last.start[2]
    /\ ~Contains(listeners(Store, last.event), last.start[2])

\* The entries a running emit() has still to call after the current one.
Left(st, h, k) == Len(h[st[k].ref]) - st[k].i

\* C17: an emit() whose listeners end and call no emit() ends, also when they
\* register listeners for its event: what the one running emit() has still to
\* call never grows.
C17_EmitWorkNeverGrows ==
    [][(Len(stack) = 1 /\ Len(stack') = 1)
          => Left(stack', heap', 1) <= Left(stack, heap, 1)]_vars

\* The step in which the listener a running emit() called returns.
Returns ==
    /\ Len(stack) > 0
    /\ Top.pc = "call"
    /\ Len(stack') = Len(stack)
    /\ stack'[Len(stack)].pc = "loop"

\* C18: a once() wrapper removes only itself.  When the listener it called
\* returns, the wrapper is gone from the sequence of its event and every other
\* entry of every event is where it was, the original listener and the other
\* wrappers of it included; wrappers differ from each other and from the
\* listeners they wrap.
C18_WrapperRemovesOnlyItself ==
    [][/\ (Returns /\ Current(Top).proxy)
             => \A k \in Keys :
                    listeners(StoreNext, k) =
                        IF k = Current(Top).event
                        THEN Without(listeners(Store, k), Current(Top))
                        ELSE listeners(Store, k)
       /\ \A n, m \in 1..Len(wrappers') :
              /\ wrappers'[n] # Plain(wrappers'[n].target)
              /\ n # m => wrappers'[n] # wrappers'[m]]_vars

\* once() twice and on() once with one listener: an emit() called the listener
\* three times and left its plain registration.
C18_Witness ==
    /\ last.op = "emit" /\ ~last.threw
    /\ Len(last.start) = 3 /\ Len(last.log) = 3
    /\ Cardinality({i \in 1..3 : last.start[i].proxy}) = 2
    /\ \A i \in 1..3 : last.log[i].fn = last.log[1].fn
    /\ listeners(Store, last.event) = <<Plain(last.log[1].fn)>>

\* C19: emit() itself changes nothing of the registry.  The steps of an emit()
\* (its start, its calls of listeners, the return of a listener that is no
\* once() wrapper, its own return or failure), nested ones included, leave
\* eventNames() and every listeners(e) as they were.
C19_EmitLeavesRegistry ==
    [][(last'.op \in {"none", "emit"} /\ ~(Returns /\ Current(Top).proxy))
          => Observed(StoreNext) = Observed(Store)]_vars

\* An emit() made by a listener returned after calling a listener, and nothing
\* else was called meanwhile.
C19_Witness ==
    /\ Len(stack) = 1
    /\ last.op = "emit" /\ ~last.threw /\ last.clean
    /\ Len(last.log) > 0
    /\ stack[1].clean

\* C20: on(), once() and off() change the sequence of their event only, and a
\* wrapper is held by the sequence of the event it was registered under.
C20_OtherEventsUntouched ==
    [][last'.op \in {"on", "once", "off"}
          => /\ \A k \in Keys \ {last'.event} :
                    listeners(StoreNext, k) = listeners(Store, k)
             /\ \A k \in Keys :
                    \A i \in 1..Len(listeners(StoreNext, k)) :
                        listeners(StoreNext, k)[i].proxy
                            => listeners(StoreNext, k)[i].event = k]_vars

\* off() removed a listener from one event and another event still holds it.
C20_Witness ==
    /\ last.op = "off"
    /\ Contains(last.start, last.listener)
    /\ \E k \in Keys : k # last.event /\ Contains(listeners(Store, k), last.listener)

====
